---- MODULE Spec2Model ----
(***************************************************************************)
(* Workflow execution engine of DTAMind-Agentflow:                         *)
(*   server/services/workflow-engine.ts   WorkflowEngine                   *)
(*   server/config/storage.ts             getStorage, MemStorage           *)
(*   server/services/database-storage.ts  DatabaseStorage                  *)
(* One executeWorkflow call is a process; its await points are the steps.  *)
(***************************************************************************)
EXTENDS Integers, Sequences, FiniteSets, TLC

(***************************************************************************)
(* Bounds of the model.                                                    *)
(***************************************************************************)
\* Largest number of nodes of a workflow.
MaxNodes == 2
\* Largest number of edges of a workflow.
MaxEdges == 2
\* Handler invocations after which one execution is no longer followed
\* (a cycle in the graph makes the traversal endless).
MaxCalls == 4
\* Largest value of the input field x.
MaxInput == 1
\* Largest numbers of nodes and edges of the workflow two concurrent calls
\* execute.
MaxConcNodes == 2
MaxConcEdges == 1
\* Largest number of pieces (literal texts and tokens) of a template given
\* to interpolateTemplate on its own.
MaxTemplateLen == 2
\* Largest numbers of nodes and edges of a workflow whose nodes carry a
\* data.type.
MaxExtNodes == 2
MaxExtEdges == 1
\* Largest numbers of nodes and edges of a workflow in which a node has two
\* different successors.
MaxOrderNodes == 3
MaxOrderEdges == 2
\* Largest number of edges out of the condition node of a workflow.
MaxBranches == 2
MaxCallers == 3
MaxThrowNodes == 2
MaxThrowEdges == 1
MaxEditNodes == 2
MaxEditEdges == 1
MaxRecords == 3

(***************************************************************************)
(* JavaScript values.  Every value carries its type tag so that values of  *)
(* different types can be compared.                                        *)
(***************************************************************************)
Undefined == [tag |-> "undefined"]
Null == [tag |-> "null"]
Num(n) == [tag |-> "number", n |-> n]
Str(s) == [tag |-> "string", s |-> s]
Bool(b) == [tag |-> "boolean", b |-> b]
\* An object: props is a function from property names to values.
Obj(f) == [tag |-> "object", props |-> f]
EmptyProps == [k \in {} |-> Undefined]
\* The array literal [].
EmptyArray == [tag |-> "array", items |-> <<>>]

\* new Date(), and its toISOString().
Now == Str("now")
\* A built-in function object.
Fn(name) == [tag |-> "function", name |-> name]
\* Object.prototype, which an object literal and a parsed JSON object inherit
\* from: the inherited properties a \w+ key can name.
ObjectPrototype ==
    [k \in {"constructor", "toString"} |->
        IF k = "constructor" THEN Fn("Object") ELSE Fn(k)]

\* key in obj: an own property or an inherited one.
HasProperty(o, key) == key \in (DOMAIN o.props) \cup (DOMAIN ObjectPrototype)
\* obj[key]: the own property, else the inherited one, else undefined.
Get(o, key) ==
    IF key \in DOMAIN o.props THEN o.props[key]
    ELSE IF key \in DOMAIN ObjectPrototype THEN ObjectPrototype[key]
    ELSE Undefined
\* Mutant: the assignment is lost.
PutNowhere(o, key, v) == o

\* Mutant: a property that is already set keeps its value.
PutIfAbsent(o, key, v) ==
    Obj([k \in (DOMAIN o.props) \cup {key} |->
            IF k \in DOMAIN o.props THEN o.props[k] ELSE v])

\* obj[key] = v
Put(o, key, v) ==
    Obj([k \in (DOMAIN o.props) \cup {key} |-> IF k = key THEN v ELSE o.props[k]])

\* JavaScript truthiness, as used by the operator ||.
Truthy(v) ==
    CASE v.tag = "undefined" -> FALSE
      [] v.tag = "null" -> FALSE
      [] v.tag = "number" -> v.n # 0
      [] v.tag = "string" -> v.s # ""
      [] v.tag = "boolean" -> v.b
      [] OTHER -> TRUE

\* a || b
Or(a, b) == IF Truthy(a) THEN a ELSE b

\* String(v), the conversion String.prototype.replace applies to the value
\* its callback returns.
ToStr(v) ==
    CASE v.tag = "number" -> ToString(v.n)
      [] v.tag = "string" -> v.s
      [] v.tag = "boolean" -> (IF v.b THEN "true" ELSE "false")
      [] v.tag = "undefined" -> "undefined"
      [] v.tag = "null" -> "null"
      [] v.tag = "function" -> "function " \o v.name \o "() { [native code] }"
      [] v.tag = "array" /\ v.items = <<>> -> ""
      [] OTHER -> "[object Object]"

(***************************************************************************)
(* Templates.  A template is the sequence of pieces the regular expression *)
(* /\{\{(\w+)\}\}/g cuts a string into: literal text and {{key}} tokens.   *)
(***************************************************************************)
Lit(s) == [kind |-> "lit", s |-> s]
Tok(key) == [kind |-> "tok", key |-> key]
\* The text of a token as it stands in the template (the callback's match).
Match(key) == "{{" \o key \o "}}"

\* Mutant: a key found nowhere is replaced by the empty string.
ReplaceTokenBlank(key, context) ==
    ToStr(Or(Or(Get(context.variables, key), Get(context.previousResults, key)),
             Str("")))

\* One call of the replace callback.
ReplaceToken(key, context) ==
    ToStr(Or(Or(Get(context.variables, key), Get(context.previousResults, key)),
             Str(Match(key))))

RECURSIVE ReplaceAll(_, _)
ReplaceAll(template, context) ==
    IF template = <<>> THEN ""
    ELSE LET p == Head(template)
             head == IF p.kind = "tok" THEN ReplaceToken(p.key, context) ELSE p.s
         IN head \o ReplaceAll(Tail(template), context)

\* WorkflowEngine.interpolateTemplate
interpolateTemplate(template, context) ==
    IF template = <<>> THEN "" ELSE ReplaceAll(template, context)

(***************************************************************************)
(* Workflows: a node array and an edge array.                              *)
(***************************************************************************)
\* Node ids; the id after the last node's is the target of a dangling edge.
IdPool == <<"a", "b", "c", "d", "e">>
\* The node types of the workflows explored: a trigger, a handler that calls
\* a collaborator, and a type executeNode has no case for.
NodeTypes == {"manual", "agent", "slack"}
\* The prompt configured on every node (node.data.prompt).
PromptTemplate == <<Lit("ask "), Tok("x")>>

\* node.data.type of the nodes explored: absent, the name of an extended
\* (LangChain) handler, and a name no handler has.
DataTypes == {Undefined, Str("web-search"), Str("custom")}

NodeArrays(maxNodes, types, dataTypes) ==
    UNION {{[i \in 1..n |-> [id |-> IdPool[i], type |-> ty[i].type,
                             data |-> [prompt |-> PromptTemplate,
                                       type |-> ty[i].dataType,
                                       condition |-> Undefined,
                                       to |-> Undefined]]] :
               ty \in [1..n -> [type : types, dataType : dataTypes]]} :
           n \in 0..maxNodes}

\* The edges between n nodes; none has a sourceHandle.
EdgesOver(n) ==
    [source : {IdPool[i] : i \in 1..n}, target : {IdPool[i] : i \in 1..(n + 1)},
     sourceHandle : {Undefined}]

EdgeArrays(n, maxEdges) == UNION {[1..m -> EdgesOver(n)] : m \in 0..maxEdges}

\* The inputs of a call: none, or an object with the field x.
Inputs == {Undefined} \cup {Obj([k \in {"x"} |-> Num(v)]) : v \in 0..MaxInput}

\* Array.prototype.filter is SelectSeq.
\* Array.prototype.find: the first node with the id, undefined if none.
FindNode(allNodes, id) ==
    LET hits == SelectSeq(allNodes, LAMBDA n : n.id = id)
    IN IF hits = <<>> THEN Undefined ELSE Head(hits)

(***************************************************************************)
(* Node handlers.                                                          *)
(***************************************************************************)
\* NodeExecutionResult
Ok(data) == [success |-> TRUE, data |-> data, error |-> Undefined]
Fail(msg) == [success |-> FALSE, data |-> Undefined, error |-> Str(msg)]
\* The promise of a handler or of executeNode rejects with an Error.
Throw(msg) == [thrown |-> Str(msg)]
IsThrown(settled) == "thrown" \in DOMAIN settled

\* What a collaborator call can do: return a text or throw an Error.
Outcomes == {"reply", "throw"}
\* The message of the Error a collaborator throws.
CollaboratorError == "Failed to process OpenAI chat completion"
\* llmService.generateResponse: the reply is a function of the request.
generateResponse(provider, model, prompt, previousResults) == Str("re: " \o prompt)

executeManualTrigger(node, context) == Ok(context.variables)

executeWebhook(node, context) == Ok(context.variables)

\* new Date().toISOString() is the only property of the data.
executeSchedule(node, context) == Ok(Obj([k \in {"timestamp"} |-> Now]))

\* node.data has no userMessage and no systemPrompt: the collaborator gets
\* an empty message list.
executeOpenAI(node, context, outcome) ==
    IF outcome = "throw" THEN Fail(CollaboratorError)
    ELSE Ok(Obj([k \in {"response", "rawOutput"} |-> Str("re: ")]))

\* data.context is the previousResults object itself; it is modelled by its
\* value at the time the handler runs.
executeAgent(node, context, outcome) ==
    LET interpolatedPrompt == interpolateTemplate(node.data.prompt, context)
    IN IF outcome = "throw" THEN Fail(CollaboratorError)
       ELSE Ok(Obj([k \in {"response", "context", "provider", "model"} |->
                CASE k = "response" ->
                       generateResponse("openai", "gpt-4o", interpolatedPrompt,
                                        context.previousResults)
                  [] k = "context" -> context.previousResults
                  [] k = "provider" -> Str("openai")
                  [] OTHER -> Str("gpt-4o")]))

\* node.data has no query.
executeVectorSearch(node, context) ==
    Ok(Obj([k \in {"results", "query"} |->
            IF k = "results" THEN EmptyArray ELSE Undefined]))

\* node.data has no language.
executeCode(node, context) == Fail("Unsupported language: undefined")

\* The condition expressions explored: one that reads the input, a constant
\* and one that is no expression.
Conditions == {Str("context.x > 0"), Str("false"), Str("(")}
\* The message of the SyntaxError new Function throws on `return (`.
ConditionSyntaxError == "Unexpected token '}'"
\* new Function('context', 'previousResults', `return ${condition}`) called
\* with the variables and previousResults: the value returned.
EvaluateCondition(condition, context) ==
    CASE condition = Str("context.x > 0") ->
            LET x == Get(context.variables, "x")
            IN Bool(x.tag = "number" /\ x.n > 0)
      [] condition = Str("false") -> Bool(FALSE)
      [] OTHER -> Undefined

executeCondition(node, context) ==
    IF node.data.condition = Str("(") THEN Fail(ConditionSyntaxError)
    ELSE Ok(Obj([k \in {"condition", "originalCondition"} |->
                 IF k = "condition"
                 THEN EvaluateCondition(node.data.condition, context)
                 ELSE node.data.condition]))

\* The object context.previousResults itself, held by reference: what it
\* contains is what the context contains when it is looked at.
PreviousResultsObject == [tag |-> "reference", to |-> "context.previousResults"]

\* data.merged is the previousResults object, not a copy of it.
executeMerge(node, context) ==
    Ok(Obj([k \in {"merged"} |-> PreviousResultsObject]))

\* The TypeError of interpolateTemplate when its template is no string.
ReplaceError == "template.replace is not a function"

\* node.data has no subject and no body; interpolateTemplate(to || "") calls
\* template.replace, which only a string has.
executeEmail(node, context) ==
    LET to == node.data.to
    IN IF Truthy(to) /\ to.tag # "string" THEN Throw(ReplaceError)
       ELSE Ok(Obj([k \in {"sent", "to", "subject"} |->
                    CASE k = "sent" -> Bool(TRUE)
                      [] k = "to" -> to
                      [] OTHER -> Undefined]))

\* node.data has no responseData: the template is "{}".
executeWebhookResponse(node, context) ==
    Ok(Str(interpolateTemplate(<<Lit("{}")>>, context)))

\* The node.data.type values of the extended (LangChain) handlers.
LangChainNodeTypes ==
    {"pdf-loader", "csv-loader", "url-scraper", "pinecone-store", "weaviate-store",
     "openai-chat", "anthropic-chat", "conversation-memory", "web-search",
     "code-executor"}

\* langChainNodeTypes.includes(node.data.type)
isLangChainNode(node) == node.data.type \in {Str(t) : t \in LangChainNodeTypes}

\* The message of the failure a LangChain collaborator reports or throws.
LangChainError == "LangChain node execution failed"

\* Every handler of the family shapes its collaborator's result the same
\* way: the content and the node type on success, the error otherwise.
executeLangChainNode(node, context, outcome) ==
    IF node.data.type \notin {Str(t) : t \in LangChainNodeTypes}
    THEN Fail("Unsupported LangChain node type: " \o ToStr(node.data.type))
    ELSE IF outcome = "throw" THEN Fail(LangChainError)
    ELSE Ok(Obj([k \in {"content", "nodeType"} |->
                 IF k = "content" THEN Str("content") ELSE node.data.type]))

\* Mutant: the switch has no default case and falls back to the manual
\* trigger.
SwitchCaseNoDefault(type) ==
    CASE type = "webhook" -> "executeWebhook"
      [] type = "schedule" -> "executeSchedule"
      [] type = "openai" -> "executeOpenAI"
      [] type = "agent" -> "executeAgent"
      [] type = "vector" -> "executeVectorSearch"
      [] type = "code" -> "executeCode"
      [] type = "condition" -> "executeCondition"
      [] type = "merge" -> "executeMerge"
      [] type = "email" -> "executeEmail"
      [] type = "webhook-response" -> "executeWebhookResponse"
      [] OTHER -> "executeManualTrigger"

\* The switch of executeNode: the method the case of a type calls.
SwitchCase(type) ==
    CASE type = "manual" -> "executeManualTrigger"
      [] type = "webhook" -> "executeWebhook"
      [] type = "schedule" -> "executeSchedule"
      [] type = "openai" -> "executeOpenAI"
      [] type = "agent" -> "executeAgent"
      [] type = "vector" -> "executeVectorSearch"
      [] type = "code" -> "executeCode"
      [] type = "condition" -> "executeCondition"
      [] type = "merge" -> "executeMerge"
      [] type = "email" -> "executeEmail"
      [] type = "webhook-response" -> "executeWebhookResponse"
      [] OTHER -> "default"

\* The method executeNode hands the node to: the LangChain test comes
\* before the switch.
\* The TypeError of isLangChainNode when the node has no data.
DispatchError == "Cannot read properties of undefined (reading 'type')"

HandlerOf(node) ==
    IF node.data = Undefined THEN "none"
    ELSE IF isLangChainNode(node) THEN "executeLangChainNode"
    ELSE SwitchCase(node.type)

\* WorkflowEngine.executeNode
executeNode(node, context, outcome) ==
    LET handler == HandlerOf(node)
    IN CASE handler = "none" -> Throw(DispatchError)
         [] handler = "executeLangChainNode" ->
                executeLangChainNode(node, context, outcome)
         [] handler = "executeManualTrigger" -> executeManualTrigger(node, context)
         [] handler = "executeWebhook" -> executeWebhook(node, context)
         [] handler = "executeSchedule" -> executeSchedule(node, context)
         [] handler = "executeOpenAI" -> executeOpenAI(node, context, outcome)
         [] handler = "executeAgent" -> executeAgent(node, context, outcome)
         [] handler = "executeVectorSearch" -> executeVectorSearch(node, context)
         [] handler = "executeCode" -> executeCode(node, context)
         [] handler = "executeCondition" -> executeCondition(node, context)
         [] handler = "executeMerge" -> executeMerge(node, context)
         [] handler = "executeEmail" -> executeEmail(node, context)
         [] handler = "executeWebhookResponse" ->
                executeWebhookResponse(node, context)
         [] OTHER -> Fail("Unknown node type: " \o node.type)

(***************************************************************************)
(* Storage: the execution records, by id.                                  *)
(***************************************************************************)
\* Object spread {...record, ...updates}
Spread(record, updates) ==
    [f \in (DOMAIN record) \cup (DOMAIN updates) |->
        IF f \in DOMAIN updates THEN updates[f] ELSE record[f]]

\* Mutant: the record is created already 'completed'.
createWorkflowExecutionCompleted(store, id, insertExecution) ==
    LET execution == [id |-> id,
                      workflowId |-> insertExecution.workflowId,
                      input |-> Or(insertExecution.input, Obj(EmptyProps)),
                      output |-> Null,
                      status |-> "completed",
                      error |-> Null,
                      completedAt |-> Null]
    IN [i \in (DOMAIN store) \cup {id} |-> IF i = id THEN execution ELSE store[i]]

\* MemStorage.createWorkflowExecution / DatabaseStorage.createWorkflowExecution
createWorkflowExecution(store, id, insertExecution) ==
    LET execution == [id |-> id,
                      workflowId |-> insertExecution.workflowId,
                      input |-> Or(insertExecution.input, Obj(EmptyProps)),
                      output |-> Null,
                      status |-> "running",
                      error |-> Null,
                      completedAt |-> Null]
    IN [i \in (DOMAIN store) \cup {id} |-> IF i = id THEN execution ELSE store[i]]

\* MemStorage.getWorkflowExecution
getWorkflowExecution(store, id) ==
    IF id \in DOMAIN store THEN store[id] ELSE Undefined

\* Mutant: the updated record is built but never put into the map.
updateWorkflowExecutionNoSet(store, id, updates) == store

\* Mutant: the updates are written into every record of the map.
updateWorkflowExecutionEvery(store, id, updates) ==
    [i \in DOMAIN store |-> Spread(store[i], updates)]

\* MemStorage.updateWorkflowExecution: the store after the call.
updateWorkflowExecution(store, id, updates) ==
    IF id \notin DOMAIN store THEN store
    ELSE [store EXCEPT ![id] = Spread(store[id], updates)]

\* MemStorage.updateWorkflowExecution: what the call returns.
updatedWorkflowExecution(store, id, updates) ==
    IF id \notin DOMAIN store THEN Undefined
    ELSE updateWorkflowExecution(store, id, updates)[id]

\* DatabaseStorage.updateWorkflowExecution: the rows after the call. A
\* database error is caught inside: the rows stay and undefined is returned.
dbUpdateWorkflowExecution(store, id, updates, dbOk) ==
    IF dbOk THEN updateWorkflowExecution(store, id, updates) ELSE store

\* DatabaseStorage.getWorkflowExecution: a database error is caught inside
\* and undefined is returned.
dbGetWorkflowExecution(store, id, dbOk) ==
    IF dbOk THEN getWorkflowExecution(store, id) ELSE Undefined

\* MemStorage.updateWorkflow / DatabaseStorage.updateWorkflow: the stored
\* workflows after the call.
updateWorkflow(store, id, updates) ==
    IF id \notin DOMAIN store THEN store
    ELSE [store EXCEPT ![id] = Spread(Spread(store[id], updates),
                                      [updatedAt |-> Now])]

\* MemStorage.deleteWorkflow: this.workflows.delete(id)
deleteWorkflow(store, id) == [w \in (DOMAIN store) \ {id} |-> store[w]]

\* DatabaseStorage.deleteWorkflow: workflow_executions.workflow_id references
\* workflows.id without ON DELETE, so the statement fails while a row of
\* executions names the workflow; the error is caught and false returned.
dbDeleteWorkflow(store, executions, id) ==
    IF \E x \in DOMAIN executions : executions[x].workflowId = id THEN store
    ELSE deleteWorkflow(store, id)

(***************************************************************************)
(* State.                                                                  *)
(***************************************************************************)
\* The executeWorkflow calls followed.
ExecIds == {1, 2}

VARIABLES
    nodes,              \* the workflow's node array, as passed to executeWorkflow
    edges,              \* the workflow's edge array
    storageInstance,    \* config/storage.ts storageInstance, once initialised
    workflowExecutions, \* the stored execution records, by id
    pc,                 \* where each executeWorkflow call stands
    input,              \* the input argument of each call
    execution,          \* the local const execution of each call
    context,            \* the WorkflowContext objects
    stack,              \* the executeFromNode activations of each call
    result,             \* the local const result of each call
    error,              \* the error caught by executeWorkflow's catch
    returned,           \* what each call returned to its caller
    calls,              \* history: the handler invocations of each call
    updates,            \* history: the updateWorkflowExecution calls of each call
    applied,            \* a method of the engine applied on its own: its
                        \* arguments and, once it has returned, its result
    workflows,          \* the stored workflows, by id
    instances,          \* the storage objects initializeStorage constructed
    callers             \* the getStorage calls followed: where each stands
                        \* and the storage it was given

vars == <<nodes, edges, storageInstance, workflowExecutions, pc, input, execution,
          context, stack, result, error, returned, calls, updates, applied,
          workflows, instances, callers>>

\* Mutant: the context is a field of the engine singleton, shared by all calls.
ContextOfEngine(e) == CHOOSE i \in ExecIds : \A j \in ExecIds : i <= j

\* The context object a call works on: a const local to the call.
ContextOf(e) == e

\* The id the storage gives a new record (randomUUID / gen_random_uuid).
NewId(e) == e

WorkflowId == "wf"

\* No method is applied on its own.
NotApplied == [method |-> "none"]

\* The getStorage calls followed.
Callers == 1 .. MaxCallers

\* A getStorage call that has not been made.
NotCalled == [pc |-> "idle", storage |-> Undefined, created |-> FALSE]

\* The engine before the calls of started begin, whatever the workflow and
\* the stored records.
InitEngine(started, inputs, storages) ==
    /\ instances = <<>>
    /\ callers = [p \in Callers |-> NotCalled]
    /\ storageInstance \in storages
    /\ input \in {f \in [ExecIds -> inputs \cup {Undefined}] :
                     \A e \in ExecIds : IF e \in started THEN f[e] \in inputs
                                                          ELSE f[e] = Undefined}
    /\ pc = [e \in ExecIds |-> IF e \in started THEN "called" ELSE "idle"]
    /\ execution = [e \in ExecIds |-> Undefined]
    /\ context = [e \in ExecIds |-> Undefined]
    /\ stack = [e \in ExecIds |-> <<>>]
    /\ result = [e \in ExecIds |-> Undefined]
    /\ error = [e \in ExecIds |-> Undefined]
    /\ returned = [e \in ExecIds |-> Undefined]
    /\ calls = [e \in ExecIds |-> <<>>]
    /\ updates = [e \in ExecIds |-> <<>>]

\* The state before the calls of started begin: no record is stored.
InitCalls(started, inputs, storages) ==
    /\ workflowExecutions = [i \in {} |-> Undefined]
    /\ InitEngine(started, inputs, storages)

\* The workflow as stored: the route hands its nodes and edges to the engine.
StoredWorkflow ==
    [w \in {WorkflowId} |-> [id |-> w, nodes |-> nodes, edges |-> edges]]

InitWith(started, inputs, maxNodes, maxEdges, types, dataTypes, storages) ==
    /\ nodes \in NodeArrays(maxNodes, types, dataTypes)
    /\ edges \in EdgeArrays(Len(nodes), maxEdges)
    /\ workflows = StoredWorkflow
    /\ InitCalls(started, inputs, storages)

\* What initializeStorage can have set storageInstance to.
Storages == {"MemStorage", "DatabaseStorage"}

\* One executeWorkflow call.
Init ==
    /\ InitWith({1}, Inputs, MaxNodes, MaxEdges, NodeTypes, {Undefined}, Storages)
    /\ applied = NotApplied

(***************************************************************************)
(* executeFromNode: the activations of the recursion are the frames of a   *)
(* stack; a frame holds its node, its own result and the index in          *)
(* nextEdges of the edge whose target it is awaiting.                      *)
(***************************************************************************)
NewFrame(node) == [node |-> node, phase |-> "call", result |-> Undefined, k |-> 0]

Pop(stk) == SubSeq(stk, 1, Len(stk) - 1)

\* Mutant: the filter on the source is lost, every edge is followed.
NextEdgesUnfiltered(node) == edges

\* Mutant: the edges labelled false are not followed.
NextEdgesNotFalse(node) ==
    SelectSeq(edges, LAMBDA edge : edge.source = node.id
                                   /\ edge.sourceHandle # Str("false"))

\* Mutant: the outgoing edges are taken in the reverse of the array order.
NextEdgesReversed(node) ==
    LET out == SelectSeq(edges, LAMBDA edge : edge.source = node.id)
    IN [i \in 1..Len(out) |-> out[Len(out) + 1 - i]]

\* Mutant: the edges are read from the stored workflow at every node.
NextEdgesStored(node) ==
    SelectSeq(IF WorkflowId \in DOMAIN workflows THEN workflows[WorkflowId].edges
              ELSE <<>>,
              LAMBDA edge : edge.source = node.id)

\* edges.filter(edge => edge.source === node.id)
NextEdges(node) == SelectSeq(edges, LAMBDA edge : edge.source = node.id)

\* Mutant: executeFromNode has no catch, the rejection goes on.
CaughtNowhere(settled) == settled

\* The try/catch of executeFromNode around the awaited executeNode: an Error
\* becomes a failure with its message.
Caught(settled) ==
    IF IsThrown(settled) THEN Fail(settled.thrown.s) ELSE settled

RECURSIVE Resume(_, _), Continue(_)
\* Mutant: the loop does not test nextResult.success and goes on.
ResumeAfterFailure(stk, ret) ==
    IF stk = <<>> THEN [stack |-> <<>>, done |-> TRUE, result |-> ret]
    ELSE Continue(stk)

\* The activation above the top of stk has returned ret.
Resume(stk, ret) ==
    IF stk = <<>> THEN [stack |-> <<>>, done |-> TRUE, result |-> ret]
    ELSE IF ~ret.success THEN Resume(Pop(stk), ret)
    ELSE Continue(stk)
\* Mutant: an edge whose target is not found fails the traversal.
ContinueTargetRequired(stk) ==
    LET top == stk[Len(stk)]
        nextEdges == NextEdges(top.node)
        j == top.k + 1
    IN IF j > Len(nextEdges) THEN Resume(Pop(stk), top.result)
       ELSE IF FindNode(nodes, nextEdges[j].target) = Undefined
       THEN Resume(Pop(stk), Fail("Node not found: " \o nextEdges[j].target))
       ELSE [stack |-> Append([stk EXCEPT ![Len(stk)].k = j],
                              NewFrame(FindNode(nodes, nextEdges[j].target))),
             done |-> FALSE, result |-> Undefined]

\* The loop over nextEdges of the top activation goes on after index k: it
\* calls executeFromNode for the next edge whose target exists, or returns
\* the activation's own result when no edge is left.
Continue(stk) ==
    LET top == stk[Len(stk)]
        nextEdges == NextEdges(top.node)
        found == {j \in (top.k + 1)..Len(nextEdges) :
                     FindNode(nodes, nextEdges[j].target) # Undefined}
    IN IF found = {} THEN Resume(Pop(stk), top.result)
       ELSE LET j == CHOOSE i \in found : \A l \in found : i <= l
            IN [stack |-> Append([stk EXCEPT ![Len(stk)].k = j],
                                 NewFrame(FindNode(nodes, nextEdges[j].target))),
                done |-> FALSE, result |-> Undefined]

(***************************************************************************)
(* executeWorkflow, one action per stretch between two awaits.             *)
(***************************************************************************)
\* Mutant: the filter on incoming edges is lost, every node is a start node.
StartNodesUnfiltered == nodes

\* Mutant: the start nodes are taken in the reverse of the array order.
StartNodesLastFirst ==
    LET starts == SelectSeq(nodes, LAMBDA node :
                                ~\E i \in DOMAIN edges : edges[i].target = node.id)
    IN [i \in 1..Len(starts) |-> starts[Len(starts) + 1 - i]]

\* nodes.filter(node => !edges.some(edge => edge.target === node.id))
StartNodes ==
    SelectSeq(nodes, LAMBDA node : ~\E i \in DOMAIN edges : edges[i].target = node.id)

\* createWorkflowExecution succeeds; the context is built and the start node
\* looked for, up to the first executeFromNode call or the throw.
CreateExecution(e) ==
    /\ pc[e] = "called"
    /\ storageInstance = "DatabaseStorage" => WorkflowId \in DOMAIN workflows
    /\ LET id == NewId(e)
           store == createWorkflowExecution(workflowExecutions, id,
                        [workflowId |-> WorkflowId,
                         input |-> Or(input[e], Obj(EmptyProps))])
       IN /\ workflowExecutions' = store
          /\ execution' = [execution EXCEPT ![e] = store[id]]
          /\ context' = [context EXCEPT ![ContextOf(e)] =
                            [executionId |-> id,
                             variables |-> Or(input[e], Obj(EmptyProps)),
                             previousResults |-> Obj(EmptyProps)]]
    /\ IF StartNodes = <<>>
       THEN /\ error' = [error EXCEPT ![e] = Str("No start node found in workflow")]
            /\ pc' = [pc EXCEPT ![e] = "catch"]
            /\ UNCHANGED stack
       ELSE /\ stack' = [stack EXCEPT ![e] = <<NewFrame(StartNodes[1])>>]
            /\ pc' = [pc EXCEPT ![e] = "traverse"]
            /\ UNCHANGED error
    /\ UNCHANGED <<applied, workflows, instances, callers, nodes, edges, storageInstance, input, result, returned, calls, updates>>

\* executeFromNode calls executeNode: the handler reads the context and
\* calls its collaborator, if it has one.
InvokeHandler(e) ==
    /\ pc[e] = "traverse"
    /\ Len(calls[e]) < MaxCalls
    /\ LET top == stack[e][Len(stack[e])]
           ctx == context[ContextOf(e)]
       IN /\ top.phase = "call"
          /\ \E outcome \in Outcomes :
                LET r == executeNode(top.node, ctx, outcome)
                IN /\ stack' = [stack EXCEPT ![e][Len(stack[e])] =
                                   [top EXCEPT !.phase = "await", !.result = r]]
                   /\ calls' = [calls EXCEPT ![e] =
                                   Append(@, [node |-> top.node.id,
                                              handler |-> HandlerOf(top.node),
                                              context |-> ctx, result |-> r])]
    /\ UNCHANGED <<applied, workflows, instances, callers, nodes, edges, storageInstance, workflowExecutions, pc, input,
                   execution, context, result, error, returned, updates>>

\* The handler's promise settles: executeFromNode stores the result and goes
\* on to the next handler call, or the traversal returns to executeWorkflow.
HandlerReturn(e) ==
    /\ pc[e] = "traverse"
    /\ LET stk == stack[e]
           top == stk[Len(stk)]
           r == Caught(top.result)
           ctx == context[ContextOf(e)]
           out == IF ~r.success THEN Resume(Pop(stk), r)
                  ELSE Continue([stk EXCEPT ![Len(stk)].phase = "loop"])
       IN /\ top.phase = "await"
          /\ IF IsThrown(r)
             THEN \* a rejection no activation catches reaches the catch of
                  \* executeWorkflow
                  /\ stack' = [stack EXCEPT ![e] = <<>>]
                  /\ error' = [error EXCEPT ![e] = r.thrown]
                  /\ pc' = [pc EXCEPT ![e] = "catch"]
                  /\ UNCHANGED <<context, result>>
             ELSE /\ context' = IF r.success
                                THEN [context EXCEPT
                                         ![ContextOf(e)].previousResults =
                                            Put(ctx.previousResults, top.node.id,
                                                r.data)]
                                ELSE context
                  /\ stack' = [stack EXCEPT ![e] = out.stack]
                  /\ UNCHANGED error
                  /\ IF out.done
                     THEN /\ result' = [result EXCEPT ![e] = out.result]
                          /\ pc' = [pc EXCEPT ![e] = "update"]
                     ELSE UNCHANGED <<result, pc>>
    /\ UNCHANGED <<applied, workflows, instances, callers, nodes, edges,
                   storageInstance, workflowExecutions, input, execution,
                   returned, calls, updates>>

\* storage.updateWorkflowExecution(execution.id, fields) as the engine calls
\* it; dbOk tells whether the database statement succeeds.
StorageUpdate(e, fields, dbOk) ==
    LET id == execution[e].id
        before == getWorkflowExecution(workflowExecutions, id)
        store == IF storageInstance = "MemStorage"
                 THEN updateWorkflowExecution(workflowExecutions, id, fields)
                 ELSE dbUpdateWorkflowExecution(workflowExecutions, id, fields, dbOk)
    IN /\ workflowExecutions' = store
       /\ updates' = [updates EXCEPT ![e] =
                         Append(@, [status |-> fields.status,
                                    before |-> before.status,
                                    after |-> store[id].status,
                                    dbError |-> (storageInstance = "DatabaseStorage"
                                                 /\ ~dbOk)])]

\* storage.getWorkflowExecution(execution.id) as the engine calls it.
StorageGet(e, dbOk) ==
    IF storageInstance = "MemStorage"
    THEN getWorkflowExecution(workflowExecutions, execution[e].id)
    ELSE dbGetWorkflowExecution(workflowExecutions, execution[e].id, dbOk)

\* The fields of the update after the traversal.
CompletedFields(e) ==
    [status |-> "completed", output |-> result[e].data, completedAt |-> Now]

\* Mutant: the catch block writes the status and the error only.
FailedFieldsNoTime(e) ==
    [status |-> "failed", error |-> error[e]]

\* The fields of the update in the catch block.
FailedFields(e) ==
    [status |-> "failed", error |-> error[e], completedAt |-> Now]

\* The traversal has returned: the record is updated with its result.
UpdateCompleted(e) ==
    /\ pc[e] = "update"
    /\ StorageUpdate(e, CompletedFields(e), TRUE)
    /\ pc' = [pc EXCEPT ![e] = "get"]
    /\ UNCHANGED <<applied, workflows, instances, callers, nodes, edges, storageInstance, input, execution, context, stack,
                   result, error, returned, calls>>

\* Mutant: getWorkflowExecution throws inside the try block.
ReturnExecutionThrows(e) ==
    /\ pc[e] = "get"
    /\ error' = [error EXCEPT ![e] = Str("Failed to get workflow execution")]
    /\ pc' = [pc EXCEPT ![e] = "catch"]
    /\ UNCHANGED <<applied, workflows, instances, callers, nodes, edges, storageInstance, workflowExecutions, input, execution,
                   context, stack, result, returned, calls, updates>>

\* return await storage.getWorkflowExecution(execution.id) || execution
ReturnExecution(e) ==
    /\ pc[e] = "get"
    /\ LET got == StorageGet(e, TRUE)
       IN returned' = [returned EXCEPT ![e] =
                          IF got # Undefined THEN got ELSE execution[e]]
    /\ pc' = [pc EXCEPT ![e] = "returned"]
    /\ UNCHANGED <<applied, workflows, instances, callers, nodes, edges, storageInstance, workflowExecutions, input, execution,
                   context, stack, result, error, calls, updates>>

\* The catch block: the record is updated with the error, which is rethrown.
UpdateFailed(e) ==
    /\ pc[e] = "catch"
    /\ StorageUpdate(e, FailedFields(e), TRUE)
    /\ pc' = [pc EXCEPT ![e] = "thrown"]
    /\ UNCHANGED <<applied, workflows, instances, callers, nodes, edges, storageInstance, input, execution, context, stack,
                   result, error, returned, calls>>

(***************************************************************************)
(* The same steps when a statement of DatabaseStorage fails.               *)
(***************************************************************************)
\* createWorkflowExecution throws, outside executeWorkflow's try.
CreateExecutionDbError(e) ==
    /\ pc[e] = "called"
    /\ storageInstance = "DatabaseStorage"
    /\ error' = [error EXCEPT ![e] = Str("Failed to create workflow execution")]
    /\ pc' = [pc EXCEPT ![e] = "thrown"]
    /\ UNCHANGED <<applied, workflows, instances, callers, nodes, edges, storageInstance, workflowExecutions, input, execution,
                   context, stack, result, returned, calls, updates>>

UpdateCompletedDbError(e) ==
    /\ pc[e] = "update"
    /\ storageInstance = "DatabaseStorage"
    /\ StorageUpdate(e, CompletedFields(e), FALSE)
    /\ pc' = [pc EXCEPT ![e] = "get"]
    /\ UNCHANGED <<applied, workflows, instances, callers, nodes, edges, storageInstance, input, execution, context, stack,
                   result, error, returned, calls>>

ReturnExecutionDbError(e) ==
    /\ pc[e] = "get"
    /\ storageInstance = "DatabaseStorage"
    /\ LET got == StorageGet(e, FALSE)
       IN returned' = [returned EXCEPT ![e] =
                          IF got # Undefined THEN got ELSE execution[e]]
    /\ pc' = [pc EXCEPT ![e] = "returned"]
    /\ UNCHANGED <<applied, workflows, instances, callers, nodes, edges, storageInstance, workflowExecutions, input, execution,
                   context, stack, result, error, calls, updates>>

UpdateFailedDbError(e) ==
    /\ pc[e] = "catch"
    /\ storageInstance = "DatabaseStorage"
    /\ StorageUpdate(e, FailedFields(e), FALSE)
    /\ pc' = [pc EXCEPT ![e] = "thrown"]
    /\ UNCHANGED <<applied, workflows, instances, callers, nodes, edges, storageInstance, input, execution, context, stack,
                   result, error, returned, calls>>

(***************************************************************************)
(* Specifications.                                                         *)
(***************************************************************************)
Next ==
    \E e \in ExecIds :
        \/ CreateExecution(e)
        \/ InvokeHandler(e)
        \/ HandlerReturn(e)
        \/ UpdateCompleted(e)
        \/ ReturnExecution(e)
        \/ UpdateFailed(e)

\* One executeWorkflow call, every storage statement succeeding.
Spec == Init /\ [][Next]_vars

\* Two executeWorkflow calls on the same nodes and edges, interleaved at their
\* awaits, each with an input object; the workflows are those of the node
\* types with a handler, the storage is the in-memory one.
InitConcurrent ==
    /\ InitWith(ExecIds, Inputs \ {Undefined}, MaxConcNodes, MaxConcEdges,
                {"manual", "agent"}, {Undefined}, {"MemStorage"})
    /\ applied = NotApplied
SpecConcurrent == InitConcurrent /\ [][Next]_vars

NextDbError ==
    \/ Next
    \/ \E e \in ExecIds :
        \/ CreateExecutionDbError(e)
        \/ UpdateCompletedDbError(e)
        \/ ReturnExecutionDbError(e)
        \/ UpdateFailedDbError(e)

\* One executeWorkflow call, the statements of DatabaseStorage free to fail.
SpecDbError == Init /\ [][NextDbError]_vars

(***************************************************************************)
(* One executeWorkflow call on a workflow whose nodes carry a data.type.   *)
(***************************************************************************)
\* The three triggers and a type the switch has no case for.
ExtendedTypes == {"manual", "webhook", "schedule", "slack"}

InitExtended ==
    /\ InitWith({1}, {Obj([k \in {"x"} |-> Num(MaxInput)])}, MaxExtNodes,
                MaxExtEdges, ExtendedTypes, DataTypes, {"MemStorage"})
    /\ applied = NotApplied

SpecExtended == InitExtended /\ [][Next]_vars

(***************************************************************************)
(* One executeWorkflow call on a workflow of up to three nodes: a trigger   *)
(* type and a type whose handler call fails.                               *)
(***************************************************************************)
InitOrder ==
    /\ InitWith({1}, {Obj([k \in {"x"} |-> Num(MaxInput)])}, MaxOrderNodes,
                MaxOrderEdges, {"manual", "slack"}, {Undefined}, {"MemStorage"})
    /\ applied = NotApplied

SpecOrder == InitOrder /\ [][Next]_vars

(***************************************************************************)
(* One executeWorkflow call on a workflow whose first node is a condition  *)
(* node; every edge leaves it and carries a sourceHandle.                  *)
(***************************************************************************)
\* The ids of the first n nodes.
FirstIds(n) == {IdPool[i] : i \in 1..n}
\* The sourceHandle values the editor gives the edges of a condition node.
SourceHandles == {Str("true"), Str("false")}

ConditionWorkflows ==
    UNION {{[i \in 1..n |->
                [id |-> IdPool[i],
                 type |-> IF i = 1 THEN "condition" ELSE ty[i],
                 data |-> [prompt |-> PromptTemplate, type |-> Undefined,
                           condition |-> IF i = 1 THEN c ELSE Undefined,
                           to |-> Undefined]]] :
              ty \in [1..n -> {"manual", "slack"}], c \in Conditions} :
           n \in 1..(MaxBranches + 1)}

InitCondition ==
    /\ nodes \in ConditionWorkflows
    /\ edges \in UNION {[1..m -> [source : {"a"}, target : FirstIds(Len(nodes)),
                                   sourceHandle : SourceHandles]] :
                         m \in 0..MaxBranches}
    /\ InitCalls({1}, {Obj([k \in {"x"} |-> Num(v)]) : v \in 0..MaxInput},
                 {"MemStorage"})
    /\ workflows = StoredWorkflow
    /\ applied = NotApplied

SpecCondition == InitCondition /\ [][Next]_vars

(***************************************************************************)
(* interpolateTemplate applied on its own to a template and a context.     *)
(***************************************************************************)
\* The keys the tokens name: keys of the context, a key of no object, and a
\* name every object inherits.
TokenKeys == {"x", "a", "missing", "constructor"}
TemplatePieces == {Lit("hi ")} \cup {Tok(k) : k \in TokenKeys}
Templates == UNION {[1..n -> TemplatePieces] : n \in 0..MaxTemplateLen}

\* The values stored under the keys of a context, the falsy ones among them.
StoredValues == {Num(v) : v \in 0..MaxInput} \cup {Str(""), Str("v"), Bool(FALSE)}
ObjectsOver(keys, values) ==
    {Obj(f) : f \in UNION {[ks -> values] : ks \in SUBSET keys}}
\* variables is the input object; previousResults is keyed by node ids.
Contexts ==
    [executionId : {1},
     variables : ObjectsOver({"x"}, StoredValues),
     previousResults : ObjectsOver({"x", "a"}, StoredValues)]

InitInterpolate ==
    /\ InitWith({}, Inputs, 0, 0, NodeTypes, {Undefined}, {"MemStorage"})
    /\ applied \in [method : {"interpolateTemplate"}, template : Templates,
                    context : Contexts, returned : {FALSE}, result : {Undefined}]

\* this.interpolateTemplate(template, context) runs and returns.
Interpolate ==
    /\ applied.method = "interpolateTemplate"
    /\ ~applied.returned
    /\ applied' = [applied EXCEPT
                      !.returned = TRUE,
                      !.result = Str(interpolateTemplate(applied.template,
                                                         applied.context))]
    /\ UNCHANGED <<nodes, edges, storageInstance, workflowExecutions, pc, input,
                   execution, context, stack, result, error, returned, calls, updates,
                   workflows, instances, callers>>

NextInterpolate == Interpolate

SpecInterpolate == InitInterpolate /\ [][NextInterpolate]_vars

(***************************************************************************)
(* One executeWorkflow call on the workflows of manual and merge nodes.    *)
(***************************************************************************)
InitMerge ==
    /\ InitWith({1}, {Obj([k \in {"x"} |-> Num(MaxInput)])}, MaxOrderNodes,
                MaxOrderEdges, {"manual", "merge"}, {Undefined}, {"MemStorage"})
    /\ applied = NotApplied

SpecMerge == InitMerge /\ [][Next]_vars

(***************************************************************************)
(* The editor's requests on the stored workflow while executeWorkflow      *)
(* runs on the nodes and edges the route read from it.                     *)
(***************************************************************************)
\* The bodies of PUT /api/workflows/:id.
WorkflowUpdates == {[nodes |-> <<>>, edges |-> <<>>], [edges |-> <<>>]}

\* PUT /api/workflows/:id
UpdateWorkflow ==
    \E u \in WorkflowUpdates :
        /\ workflows' = updateWorkflow(workflows, WorkflowId, u)
        /\ UNCHANGED <<applied, instances, callers, nodes, edges, storageInstance,
                       workflowExecutions, pc, input, execution, context, stack,
                       result, error, returned, calls, updates>>

\* DELETE /api/workflows/:id
DeleteWorkflow ==
    /\ workflows' = IF storageInstance = "MemStorage"
                    THEN deleteWorkflow(workflows, WorkflowId)
                    ELSE dbDeleteWorkflow(workflows, workflowExecutions, WorkflowId)
    /\ UNCHANGED <<applied, instances, callers, nodes, edges, storageInstance,
                   workflowExecutions, pc, input, execution, context, stack,
                   result, error, returned, calls, updates>>

\* The insert into workflow_executions names a workflow deleted since the
\* route read it: createWorkflowExecution throws, outside the try.
CreateExecutionNoWorkflow(e) ==
    /\ pc[e] = "called"
    /\ storageInstance = "DatabaseStorage"
    /\ WorkflowId \notin DOMAIN workflows
    /\ error' = [error EXCEPT ![e] = Str("Failed to create workflow execution")]
    /\ pc' = [pc EXCEPT ![e] = "thrown"]
    /\ UNCHANGED <<applied, workflows, instances, callers, nodes, edges,
                   storageInstance, workflowExecutions, input, execution,
                   context, stack, result, returned, calls, updates>>

InitEdit ==
    /\ InitWith({1}, {Obj([k \in {"x"} |-> Num(MaxInput)])}, MaxEditNodes,
                MaxEditEdges, {"manual", "slack"}, {Undefined}, Storages)
    /\ applied = NotApplied

NextEdit ==
    \/ Next
    \/ UpdateWorkflow
    \/ DeleteWorkflow
    \/ \E e \in ExecIds : CreateExecutionNoWorkflow(e)

SpecEdit == InitEdit /\ [][NextEdit]_vars

\* Workflows with handlers that throw: nodes without data, and email nodes
\* whose data.to is absent, a string or a number.
ThrowData ==
    {Undefined} \cup {[prompt |-> PromptTemplate, type |-> Undefined,
                       condition |-> Undefined, to |-> to] :
                         to \in {Str("a@b.c"), Num(5)}}

ThrowWorkflows ==
    UNION {{[i \in 1..n |-> [id |-> IdPool[i], type |-> f[i].type,
                             data |-> f[i].data]] :
               f \in [1..n -> [type : {"manual", "email"}, data : ThrowData]]} :
           n \in 0..MaxThrowNodes}

InitThrow ==
    /\ nodes \in ThrowWorkflows
    /\ edges \in EdgeArrays(Len(nodes), MaxThrowEdges)
    /\ workflows = StoredWorkflow
    /\ InitCalls({1}, Inputs, {"MemStorage"})
    /\ applied = NotApplied

SpecThrow == InitThrow /\ [][Next]_vars

(***************************************************************************)
(* createWorkflowExecution and updateWorkflowExecution applied on their    *)
(* own to a storage that holds records, with ids it knows and one it does  *)
(* not.                                                                    *)
(***************************************************************************)
RecordIds == 1 .. MaxRecords

\* A stored record with the status st.
StoredRecord(id, st) ==
    [id |-> id, workflowId |-> WorkflowId, input |-> Obj(EmptyProps),
     output |-> Null, status |-> st, error |-> Null,
     completedAt |-> IF st = "running" THEN Null ELSE Now]

\* The maps of records the storage can hold: the last id is in none.
Stores ==
    UNION {{[i \in ids |-> StoredRecord(i, st[i])] :
               st \in [ids -> {"running", "completed"}]} :
           ids \in SUBSET (1 .. (MaxRecords - 1))}

\* The updates the engine writes.
RecordUpdates ==
    {[status |-> "completed", output |-> Str("out"), completedAt |-> Now],
     [status |-> "failed", error |-> Str("err"), completedAt |-> Now]}

\* randomUUID(): an id no record has.
FreshId(store) == CHOOSE i \in RecordIds \ DOMAIN store :
                      \A j \in RecordIds \ DOMAIN store : i <= j

InitRecords ==
    /\ nodes = <<>>
    /\ edges = <<>>
    /\ workflows = StoredWorkflow
    /\ InitEngine({}, Inputs, {"MemStorage"})
    /\ workflowExecutions \in Stores
    /\ applied \in
          [method : {"createWorkflowExecution"}, store : {workflowExecutions},
           workflows : {workflows},
           insertExecution : [workflowId : {WorkflowId}, input : Inputs],
           returned : {FALSE}, result : {Undefined}]
          \cup
          [method : {"updateWorkflowExecution"}, store : {workflowExecutions},
           workflows : {workflows},
           id : RecordIds, updates : RecordUpdates,
           returned : {FALSE}, result : {Undefined}]

\* storage.createWorkflowExecution(insertExecution) runs and returns.
ApplyCreate ==
    /\ applied.method = "createWorkflowExecution"
    /\ ~applied.returned
    /\ LET id == FreshId(workflowExecutions)
           store == createWorkflowExecution(workflowExecutions, id,
                                            applied.insertExecution)
       IN /\ workflowExecutions' = store
          /\ applied' = [applied EXCEPT !.returned = TRUE, !.result = store[id]]
    /\ UNCHANGED <<workflows, instances, callers, nodes, edges, storageInstance,
                   pc, input, execution, context, stack, result, error, returned,
                   calls, updates>>

\* storage.updateWorkflowExecution(id, updates) runs and returns.
ApplyUpdate ==
    /\ applied.method = "updateWorkflowExecution"
    /\ ~applied.returned
    /\ workflowExecutions' = updateWorkflowExecution(workflowExecutions,
                                                     applied.id, applied.updates)
    /\ applied' = [applied EXCEPT
                      !.returned = TRUE,
                      !.result = updatedWorkflowExecution(workflowExecutions,
                                                          applied.id,
                                                          applied.updates)]
    /\ UNCHANGED <<workflows, instances, callers, nodes, edges, storageInstance,
                   pc, input, execution, context, stack, result, error, returned,
                   calls, updates>>

NextRecords == ApplyCreate \/ ApplyUpdate

SpecRecords == InitRecords /\ [][NextRecords]_vars

(***************************************************************************)
(* config/storage.ts: getStorage and initializeStorage, called by several  *)
(* requests. Here storageInstance is null or a reference to one of the     *)
(* objects of instances; the rows of DatabaseStorage are                   *)
(* workflowExecutions, the map of a MemStorage is a field of the object.   *)
(***************************************************************************)
\* What checkDatabaseConnection can answer.
DbStatuses == {"connected", "disconnected"}

\* A reference to the n-th storage object constructed.
Ref(n) == [ref |-> n]

\* new DatabaseStorage() / new MemStorage()
NewStorage(status) ==
    [kind |-> IF status = "connected" THEN "DatabaseStorage" ELSE "MemStorage",
     workflowExecutions |-> [i \in {} |-> Undefined]]

\* The execution records a storage object reads and writes.
RecordsOf(storage) ==
    IF instances[storage.ref].kind = "MemStorage"
    THEN instances[storage.ref].workflowExecutions
    ELSE workflowExecutions

InitStorage ==
    /\ InitWith({}, Inputs, 0, 0, NodeTypes, {Undefined}, {Null})
    /\ applied = NotApplied

\* getStorage() is called: with storageInstance set it returns it; otherwise
\* initializeStorage tests storageInstance again and awaits
\* checkDatabaseConnection().
GetStorage(p) ==
    /\ callers[p].pc = "idle"
    /\ callers' = [callers EXCEPT ![p] =
                      IF storageInstance # Null
                      THEN [@ EXCEPT !.pc = "done", !.storage = storageInstance]
                      ELSE [@ EXCEPT !.pc = "checking"]]
    /\ UNCHANGED <<applied, workflows, instances, nodes, edges, storageInstance,
                   workflowExecutions, pc, input, execution, context, stack,
                   result, error, returned, calls, updates>>

\* checkDatabaseConnection() resolves: initializeStorage constructs a storage,
\* assigns it to storageInstance and returns it.
InitializeStorage(p) ==
    \E status \in DbStatuses :
        /\ callers[p].pc = "checking"
        /\ instances' = Append(instances, NewStorage(status))
        /\ storageInstance' = Ref(Len(instances) + 1)
        /\ callers' = [callers EXCEPT ![p] = [@ EXCEPT !.pc = "done",
                                                       !.storage = storageInstance']]
        /\ UNCHANGED <<applied, workflows, nodes, edges, workflowExecutions, pc,
                       input, execution, context, stack, result, error, returned,
                       calls, updates>>

\* The caller creates an execution record through the storage it was given.
CallerCreates(p) ==
    /\ callers[p].pc = "done"
    /\ ~callers[p].created
    /\ LET storage == callers[p].storage
           store == createWorkflowExecution(RecordsOf(storage), p,
                                            [workflowId |-> WorkflowId,
                                             input |-> Undefined])
       IN IF instances[storage.ref].kind = "MemStorage"
          THEN /\ instances' = [instances EXCEPT
                                   ![storage.ref].workflowExecutions = store]
               /\ UNCHANGED workflowExecutions
          ELSE /\ workflowExecutions' = store
               /\ UNCHANGED instances
    /\ callers' = [callers EXCEPT ![p] = [@ EXCEPT !.created = TRUE]]
    /\ UNCHANGED <<applied, workflows, nodes, edges, storageInstance, pc, input,
                   execution, context, stack, result, error, returned, calls,
                   updates>>

NextStorage ==
    \E p \in Callers : \/ GetStorage(p)
                        \/ InitializeStorage(p)
                        \/ CallerCreates(p)

SpecStorage == InitStorage /\ [][NextStorage]_vars

\* The callers that were given a storage.
Given == {p \in Callers : callers[p].pc = "done"}

(***************************************************************************)
(* Properties.                                                             *)
(***************************************************************************)
\* The call has returned or thrown.
Finished(e) == pc[e] \in {"returned", "thrown"}
\* The call created its execution record.
Created(e) == execution[e] # Undefined
\* The stored record of the call.
Record(e) == workflowExecutions[execution[e].id]
\* The indices of the handler invocations of e that failed.
FailedCalls(e) == {i \in DOMAIN calls[e] : ~calls[e][i].result.success}
\* How many times the handler of the node was invoked in e.
Invocations(e, id) == Cardinality({i \in DOMAIN calls[e] : calls[e][i].node = id})

\* C1: when a handler invoked during the traversal returns a failure with
\* error err, the record is never written 'completed', and once the call is
\* over the record has status 'failed' and the error err.
C1_HandlerFailureRecordedFailed ==
    \A e \in ExecIds : \A i \in FailedCalls(e) :
        /\ \A u \in DOMAIN updates[e] : updates[e][u].status # "completed"
        /\ Finished(e) => /\ Record(e).status = "failed"
                          /\ Record(e).error = calls[e][i].result.error

StatusChanges(e) == {i \in DOMAIN updates[e] : updates[e][i].before # updates[e][i].after}

AllSucceeded(e) == pc[e] = "returned" /\ calls[e] # <<>> /\ FailedCalls(e) = {}

\* C5: when every handler succeeds the record is 'completed' and its output
\* is the result data of the last node executed.
C5_OutputIsFinalNodeData ==
    \A e \in ExecIds :
        AllSucceeded(e) =>
            /\ Record(e).status = "completed"
            /\ Record(e).output = calls[e][Len(calls[e])].result.data

\* The number of edges whose target is the node.
InDegree(id) == Cardinality({i \in DOMAIN edges : edges[i].target = id})
\* Every node of the workflow is the target of at least one edge.
NoStartNode == \A i \in DOMAIN nodes : InDegree(nodes[i].id) >= 1

\* The run has a workflow-level failure: no start node, or a handler that
\* returned a failure (an unknown node type among them).
WorkflowFailure(e) == (Created(e) /\ NoStartNode) \/ FailedCalls(e) # {}

\* C6: a finished call has handed its caller a record, 'completed' with an
\* output when the workflow succeeded and 'failed' with an error string when
\* it failed; no workflow-level failure leaves executeWorkflow as an exception.
C6_FailureReturnedNotThrown ==
    \A e \in ExecIds :
        (Created(e) /\ Finished(e)) =>
            /\ pc[e] = "returned"
            /\ IF WorkflowFailure(e)
               THEN returned[e].status = "failed" /\ returned[e].error.tag = "string"
               ELSE returned[e].status = "completed" /\ returned[e].output.tag # "null"

\* C7: when every node is the target of an edge no handler is ever invoked,
\* and the finished call leaves the record 'failed' with the error
\* "No start node found in workflow".
C7_NoStartNode ==
    \A e \in ExecIds :
        NoStartNode =>
            /\ calls[e] = <<>>
            /\ Finished(e) => /\ Record(e).status = "failed"
                              /\ Record(e).error = Str("No start node found in workflow")
                              /\ Record(e).output = Null

\* A call on a workflow with nodes, each one the target of an edge, is over.
C7_Witness ==
    \E e \in ExecIds : Finished(e) /\ Created(e) /\ nodes # <<>> /\ NoStartNode

C10_ReturnsFinalRecord ==
    \A e \in ExecIds :
        pc[e] = "returned" =>
            /\ returned[e].status = "completed"
            /\ returned[e].output = result[e].data
            /\ returned[e].completedAt = Now

\* The context a call builds from its own input.
FreshContext(e) ==
    [executionId |-> NewId(e),
     variables |-> Or(input[e], Obj(EmptyProps)),
     previousResults |-> Obj(EmptyProps)]

\* C9: every handler of an execution is given that execution's id and
\* variables, and a previousResults whose entries are results of earlier
\* handlers of the same execution; the output written to the record is
\* undefined when one of its own handlers failed, and otherwise the result its
\* start node computes from its own input alone.
C9_ContextIsolation ==
    \A e \in ExecIds :
        /\ \A i \in DOMAIN calls[e] :
              LET ctx == calls[e][i].context
              IN /\ ctx.executionId = NewId(e)
                 /\ ctx.variables = Or(input[e], Obj(EmptyProps))
                 /\ \A id \in DOMAIN ctx.previousResults.props :
                       \E j \in 1..(i - 1) :
                          /\ calls[e][j].node = id
                          /\ calls[e][j].result.success
                          /\ calls[e][j].result.data = ctx.previousResults.props[id]
        /\ pc[e] = "returned" =>
              IF FailedCalls(e) # {} THEN Record(e).output = Undefined
              ELSE \E outcome \in Outcomes :
                      Record(e).output =
                          executeNode(StartNodes[1], FreshContext(e), outcome).data

\* Both calls are in their traversal at once, on different inputs, each with
\* a handler that has read a result stored earlier.
C9_Witness ==
    /\ input[1] # input[2]
    /\ \A e \in ExecIds :
          /\ pc[e] = "traverse"
          /\ \E i \in DOMAIN calls[e] : calls[e][i].context.previousResults.props # EmptyProps

(***************************************************************************)
(* Properties of interpolateTemplate.                                      *)
(***************************************************************************)
\* interpolateTemplate has returned.
Interpolated == applied.method = "interpolateTemplate" /\ applied.returned
\* The key is found in neither variables nor previousResults.
InNeither(key, ctx) ==
    ~HasProperty(ctx.variables, key) /\ ~HasProperty(ctx.previousResults, key)
\* The tokens of the template the context has no value for.
MissingTokens(template, ctx) ==
    {i \in DOMAIN template :
        template[i].kind = "tok" /\ InNeither(template[i].key, ctx)}
\* The tokens of the template.
Tokens(template) == {i \in DOMAIN template : template[i].kind = "tok"}
\* The text of the template as it was written.
RECURSIVE SourceText(_)
SourceText(template) ==
    IF template = <<>> THEN ""
    ELSE (IF Head(template).kind = "tok" THEN "{{" \o Head(template).key \o "}}"
          ELSE Head(template).s) \o SourceText(Tail(template))
\* The template with the given tokens written as literal text.
Literally(template, toks) ==
    [i \in DOMAIN template |->
        IF i \in toks THEN Lit("{{" \o template[i].key \o "}}") ELSE template[i]]

Sources == {"variables", "previousResults"}
\* The text of the template with every token replaced by the string of the
\* value its key has in the object src names for that key.
RECURSIVE SubstitutedText(_, _, _)
SubstitutedText(template, ctx, src) ==
    IF template = <<>> THEN ""
    ELSE LET p == Head(template)
         IN (IF p.kind = "tok" THEN ToStr(Get(ctx[src[p.key]], p.key)) ELSE p.s)
            \o SubstitutedText(Tail(template), ctx, src)

\* C12: when every token of the template is a key present in variables or
\* previousResults, whatever the values stored (0, false and "" included),
\* the result is the template with every occurrence of a token replaced by
\* the value of its key, the same at every occurrence, and the other text
\* untouched.
C12_EveryTokenSubstituted ==
    LET t == applied.template
        ctx == applied.context
    IN (/\ Interpolated
        /\ \A i \in Tokens(t) : ~InNeither(t[i].key, ctx)) =>
           \E src \in [TokenKeys -> Sources] :
               /\ \A i \in Tokens(t) : HasProperty(ctx[src[t[i].key]], t[i].key)
               /\ applied.result.s = SubstitutedText(t, ctx, src)

\* The template with every token whose key is in variables written as the
\* string of the variables value.
FromVariables(template, ctx) ==
    [i \in DOMAIN template |->
        IF template[i].kind = "tok" /\ HasProperty(ctx.variables, template[i].key)
        THEN Lit(ToStr(Get(ctx.variables, template[i].key)))
        ELSE template[i]]

\* C13: a token whose key is present in variables is always replaced by the
\* variables value, also when previousResults holds the same key;
\* previousResults is consulted only for a key absent from variables.
C13_VariablesFirst ==
    Interpolated =>
        applied.result.s =
            interpolateTemplate(FromVariables(applied.template, applied.context),
                                applied.context)

(***************************************************************************)
(* Properties of the dispatch and of the handlers.                         *)
(***************************************************************************)
\* The eleven built-in node types.
BuiltInTypes ==
    {"manual", "webhook", "schedule", "openai", "agent", "vector", "code",
     "condition", "merge", "email", "webhook-response"}
\* The node of the i-th handler invocation of e.
NodeOf(e, i) == FindNode(nodes, calls[e][i].node)
\* The node's data.type is the name of an extended handler.
NamesExtendedHandler(node) ==
    \E t \in LangChainNodeTypes : node.data.type = Str(t)
\* The traversal of e has returned to executeWorkflow.
Traversed(e) == pc[e] \in {"update", "get", "returned"}

C15_DispatchByNodeType ==
    \A e \in ExecIds : \A i \in DOMAIN calls[e] :
        LET node == NodeOf(e, i)
        IN /\ node.type \in BuiltInTypes =>
                calls[e][i].handler = SwitchCase(node.type)
           /\ calls[e][i].handler = "executeLangChainNode" =>
                node.type \notin BuiltInTypes

\* The handlers of the three triggers.
TriggerHandlers == {"executeManualTrigger", "executeWebhook", "executeSchedule"}
\* Every entry of the object vs is an entry of the value data, unchanged.
ContainsEntries(data, vs) ==
    /\ data.tag = "object"
    /\ \A k \in DOMAIN vs.props :
          k \in DOMAIN data.props /\ data.props[k] = vs.props[k]

\* C16: a trigger handler succeeds with data holding every entry of
\* context.variables unchanged; the data of the schedule handler holds them
\* and a timestamp.
C16_TriggersPassVariables ==
    \A e \in ExecIds : \A i \in DOMAIN calls[e] :
        calls[e][i].handler \in TriggerHandlers =>
            /\ calls[e][i].result.success
            /\ ContainsEntries(calls[e][i].result.data, calls[e][i].context.variables)
            /\ calls[e][i].handler = "executeSchedule" =>
                  "timestamp" \in DOMAIN calls[e][i].result.data.props

(***************************************************************************)
(* Properties of the traversal order.                                      *)
(***************************************************************************)
\* The positions in the nodes array of the nodes no edge targets.
ZeroInDegree == {i \in DOMAIN nodes : InDegree(nodes[i].id) = 0}
\* The first of them in the order of the array.
FirstZeroInDegree == CHOOSE i \in ZeroInDegree : \A j \in ZeroInDegree : i <= j
\* The ids reached from the ids of S along at most n edges.
RECURSIVE ReachedWithin(_, _)
ReachedWithin(S, n) ==
    IF n = 0 THEN S
    ELSE ReachedWithin(S \cup {edges[i].target :
                                  i \in {j \in DOMAIN edges : edges[j].source \in S}},
                       n - 1)
\* The ids reachable from id by edges.
ReachableFrom(id) == ReachedWithin({id}, Len(edges))

\* C17: when several nodes are the target of no edge, the first handler
\* invoked is that of the first of them in the nodes array, the others and
\* every node not reachable from it by edges are never invoked, and a call
\* that is over with no handler having failed has returned with its record
\* 'completed'.
C17_FirstStartNodeOnly ==
    \A e \in ExecIds :
        Cardinality(ZeroInDegree) >= 2 =>
            LET start == nodes[FirstZeroInDegree].id
            IN /\ \A i \in DOMAIN calls[e] :
                     /\ i = 1 => calls[e][i].node = start
                     /\ calls[e][i].node \in ReachableFrom(start)
               /\ \A j \in ZeroInDegree \ {FirstZeroInDegree} :
                     Invocations(e, nodes[j].id) = 0
               /\ (Finished(e) /\ FailedCalls(e) = {}) =>
                     /\ pc[e] = "returned"
                     /\ calls[e] # <<>>
                     /\ Record(e).status = "completed"

\* A workflow with two nodes no edge targets was run to its return: only
\* the first was invoked and the record is 'completed'.
C17_Witness ==
    \E e \in ExecIds :
        /\ Cardinality(ZeroInDegree) >= 2
        /\ pc[e] = "returned"
        /\ FailedCalls(e) = {}
        /\ Len(calls[e]) = 1
        /\ Record(e).status = "completed"

\* The activations of e that are pending on the same node as an activation
\* beneath them: the recursion has come back to a node it has not left.
Reentered(e) ==
    {j \in DOMAIN stack[e] :
        \E i \in 1..(j - 1) : stack[e][i].node.id = stack[e][j].node.id}

\* C18: on every graph with a start node, cycles reachable from it included,
\* and with handlers that return, executeWorkflow comes to its end.  Stated
\* over finite runs: the recursion never re-enters a node one of whose
\* activations is still pending.  An activation is pending only while every
\* handler so far has succeeded, and the walk then depends on the graph
\* alone, so a run that re-enters a pending node and whose handlers go on
\* succeeding re-enters it again and again and never returns.
C18_TerminatesOnEveryGraph ==
    \A e \in ExecIds : Reentered(e) = {}

\* The ids of the nodes of the workflow.
NodeIds == {nodes[i].id : i \in DOMAIN nodes}
\* No node is reachable from itself by one edge or more.
Acyclic ==
    \A id \in NodeIds :
        id \notin ReachedWithin({edges[i].target :
                                   i \in {j \in DOMAIN edges : edges[j].source = id}},
                               Len(edges))
\* The number of edge paths of at most depth edges from the node start to
\* the node id; two paths are distinct when their edge sequences are.
RECURSIVE EdgePaths(_, _, _), EdgePathsVia(_, _, _, _)
EdgePaths(start, id, depth) ==
    (IF id = start THEN 1 ELSE 0) +
    (IF depth = 0 THEN 0 ELSE EdgePathsVia(start, id, depth, Len(edges)))
\* Those whose last edge is one of the first n edges of the array.
EdgePathsVia(start, id, depth, n) ==
    IF n = 0 THEN 0
    ELSE EdgePathsVia(start, id, depth, n - 1) +
         (IF edges[n].target = id THEN EdgePaths(start, edges[n].source, depth - 1)
          ELSE 0)
\* The last handler invocation of e on the node id.
LastCall(e, id) ==
    LET on == {i \in DOMAIN calls[e] : calls[e][i].node = id}
    IN calls[e][CHOOSE i \in on : \A j \in on : j <= i]

InFlight(e) == {i \in DOMAIN stack[e] : stack[e][i].phase = "await"}
\* The ids of the nodes in the order their handlers were invoked in e.
CallOrder(e) == [i \in DOMAIN calls[e] |-> calls[e][i].node]
\* The depth-first pre-order of the nodes reached from id by at most depth
\* edges, the edges out of a node taken in the order of the edges array.
RECURSIVE PreOrder(_, _), PreOrderFrom(_, _, _)
PreOrder(id, depth) ==
    <<id>> \o (IF depth = 0 THEN <<>> ELSE PreOrderFrom(id, depth, 1))
\* The part of it under the edges of the array from the k-th on.
PreOrderFrom(id, depth, k) ==
    IF k > Len(edges) THEN <<>>
    ELSE (IF edges[k].source = id /\ edges[k].target \in NodeIds
          THEN PreOrder(edges[k].target, depth - 1) ELSE <<>>)
         \o PreOrderFrom(id, depth, k + 1)
\* The sequence s begins the sequence t.
IsPrefix(s, t) == Len(s) <= Len(t) /\ s = SubSeq(t, 1, Len(s))

ReturnedCalls(e) ==
    {i \in DOMAIN calls[e] : i < Len(calls[e]) \/ InFlight(e) = {}}
\* The nodes whose handler has returned a success in the invocations is.
SucceededIn(e, is) == {calls[e][i].node : i \in {j \in is : calls[e][j].result.success}}
\* The keys of an object.
Keys(o) == DOMAIN o.props

\* C21: at every point of an execution the keys of previousResults are the
\* nodes whose handler has returned a success so far, so a key is never
\* removed and a failure adds none; the previousResults a handler is given
\* has the entries of every node that succeeded before it, those of sibling
\* branches visited earlier included.
C21_KeysAreSucceededNodes ==
    \A e \in ExecIds :
        context[e] # Undefined =>
            /\ Keys(context[e].previousResults) = SucceededIn(e, ReturnedCalls(e))
            /\ \A i \in DOMAIN calls[e] :
                  /\ Keys(calls[e][i].context.previousResults)
                        = SucceededIn(e, 1..(i - 1))
                  /\ Keys(calls[e][i].context.previousResults)
                        \subseteq Keys(context[e].previousResults)

\* The handler of c, the second successor of a, was given the entry of its
\* sibling b, and the handler of a failing node left no entry.
C21_Witness ==
    \E e \in ExecIds :
        /\ Traversed(e)
        /\ Len(calls[e]) = 3
        /\ CallOrder(e) = <<"a", "b", "c">>
        /\ InDegree("b") = 1 /\ InDegree("c") = 1
        /\ edges[1].source = "a" /\ edges[2].source = "a"
        /\ Keys(calls[e][3].context.previousResults) = {"a", "b"}
        /\ ~calls[e][3].result.success
        /\ Keys(context[e].previousResults) = {"a", "b"}

(***************************************************************************)
(* Properties of the condition node.                                       *)
(***************************************************************************)
\* The ids invoked in e from the i-th invocation on.
CallOrderFrom(e, i) == SubSeq(CallOrder(e), i, Len(calls[e]))
\* The successful invocations of condition nodes in e that have returned.
ConditionCalls(e) ==
    {i \in ReturnedCalls(e) :
        calls[e][i].handler = "executeCondition" /\ calls[e][i].result.success}

\* C22: after a condition node has succeeded the targets of all its edges
\* are executed in the order of the edges array, whatever the condition
\* evaluated to and whatever sourceHandle the edges carry: the invocations
\* from the condition node on follow the pre-order of its successors; they
\* fall short of it only while the traversal goes on or when a node failed.
C22_AllBranchesWalked ==
    \A e \in ExecIds : \A i \in ConditionCalls(e) :
        LET branch == PreOrder(calls[e][i].node, Len(calls[e]))
            walked == CallOrderFrom(e, i)
        IN /\ IsPrefix(walked, branch) \/ IsPrefix(branch, walked)
           /\ (Traversed(e) /\ FailedCalls(e) = {}) =>
                 /\ IsPrefix(branch, walked)
                 /\ \A k \in DOMAIN edges :
                       edges[k].source = calls[e][i].node =>
                          \E j \in (i + 1)..Len(calls[e]) :
                              calls[e][j].node = edges[k].target

\* The condition evaluated to false, its first edge carries the handle
\* "true" and its second the handle "false", and both targets were executed
\* in that order.
C22_Witness ==
    \E e \in ExecIds :
        /\ pc[e] = "returned" /\ FailedCalls(e) = {}
        /\ Get(calls[e][1].result.data, "condition") = Bool(FALSE)
        /\ Len(edges) = 2
        /\ edges[1].sourceHandle = Str("true") /\ edges[1].target = "c"
        /\ edges[2].sourceHandle = Str("false") /\ edges[2].target = "b"
        /\ CallOrder(e) = <<"a", "c", "b">>

(***************************************************************************)
(* Properties of the execution record.                                     *)
(***************************************************************************)
\* The input the record of e is created with.
RecordedInput(e) == IF input[e] = Undefined THEN Obj(EmptyProps) ELSE input[e]

\* C23: a handler is invoked only once the record of its execution exists,
\* created with status 'running' and the supplied input ({} when none is
\* given), and for as long as the traversal goes on, a handler in flight or
\* not, the stored record has status 'running' and that input.
C23_RunningWhileHandlersRun ==
    \A e \in ExecIds :
        /\ (calls[e] # <<>> \/ stack[e] # <<>>) => Created(e)
        /\ Created(e) => /\ execution[e].status = "running"
                          /\ execution[e].input = RecordedInput(e)
        /\ (pc[e] = "traverse" \/ InFlight(e) # {}) =>
              /\ Record(e).status = "running"
              /\ Record(e).input = RecordedInput(e)

\* A call given no input has a handler in flight, its record 'running' with
\* input {}.
C23_Witness ==
    \E e \in ExecIds :
        /\ input[e] = Undefined
        /\ InFlight(e) # {}
        /\ Len(calls[e]) = 2
        /\ Record(e).status = "running"
        /\ Record(e).input = Obj(EmptyProps)

\* C24: every getStorage call is given the same storage object, also when the
\* first calls overlap, and an execution record created through one caller's
\* storage is read through every other caller's.
C24_OneStorage ==
    \A p \in Given : \A q \in Given :
        /\ callers[p].storage = callers[q].storage
        /\ callers[p].created
              => getWorkflowExecution(RecordsOf(callers[q].storage), p) # Undefined


\* The handler invocations of e that ended in an exception.
ThrownCalls(e) == {i \in DOMAIN calls[e] : IsThrown(calls[e][i].result)}

\* C25: an exception raised by a handler or by the dispatch never leaves
\* executeFromNode: no handler is invoked after it, the catch block of
\* executeWorkflow is not entered, and the traversal returns the failure
\* whose error is the exception's message.
C25_ExceptionsBecomeFailures ==
    \A e \in ExecIds : \A i \in ThrownCalls(e) :
        /\ i = Len(calls[e])
        /\ pc[e] # "catch"
        /\ error[e] = Undefined
        /\ pc[e] = "traverse" => stack[e][Len(stack[e])].phase = "await"
        /\ pc[e] # "traverse"
              => result[e] = [success |-> FALSE, data |-> Undefined,
                              error |-> calls[e][i].result.thrown]

\* C25 for an email node whose data.to is a number, reached from a manual
\* node: the traversal has returned the failure of template.replace.
C25_Witness ==
    /\ Finished(1)
    /\ Len(calls[1]) = 2
    /\ calls[1][1].handler = "executeManualTrigger"
    /\ calls[1][2].handler = "executeEmail"
    /\ calls[1][2].result = Throw(ReplaceError)
    /\ result[1] = Fail(ReplaceError)


(***************************************************************************)
(* Edges whose target is no node.                                          *)
(***************************************************************************)
\* The edges array without the edges whose target is absent from the nodes.
Pruned == SelectSeq(edges, LAMBDA edge : edge.target \in NodeIds)
\* The start nodes of the workflow with the edges es.
StartNodesOver(es) ==
    SelectSeq(nodes, LAMBDA node : ~\E i \in DOMAIN es : es[i].target = node.id)
\* The depth-first pre-order from id in the workflow with the edges es, all
\* of whose targets are nodes, down to depth edges.
RECURSIVE WalkOrder(_, _, _), WalkOrderFrom(_, _, _, _)
WalkOrder(es, id, depth) ==
    <<id>> \o (IF depth = 0 THEN <<>> ELSE WalkOrderFrom(es, id, depth, 1))
WalkOrderFrom(es, id, depth, k) ==
    IF k > Len(es) THEN <<>>
    ELSE (IF es[k].source = id THEN WalkOrder(es, es[k].target, depth - 1)
          ELSE <<>>)
         \o WalkOrderFrom(es, id, depth, k + 1)
\* What the handler of the node id returns in e.
HandlerResult(e, id) == executeNode(FindNode(nodes, id), context[e], "reply")
\* The run of e on the workflow with the edges es, once its traversal has
\* returned after invoking n handlers: the invocations, the previousResults
\* and what the traversal returns.
RunOver(e, es, n) ==
    LET order == WalkOrder(es, StartNodesOver(es)[1].id, n)
        failing == {i \in DOMAIN order : ~HandlerResult(e, order[i]).success}
        last == IF failing = {} THEN Len(order)
                ELSE CHOOSE i \in failing : \A j \in failing : i <= j
        done == {order[i] : i \in 1..(IF failing = {} THEN last ELSE last - 1)}
    IN [order |-> SubSeq(order, 1, last),
        previousResults |-> Obj([id \in done |-> HandlerResult(e, id).data]),
        result |-> IF failing = {} THEN HandlerResult(e, order[1])
                   ELSE HandlerResult(e, order[last])]

\* C26: a workflow with edges whose target is no node runs as the workflow
\* without these edges: the same start node or the same lack of one, the
\* same handler invocations in the same order, and once the traversal has
\* returned the same previousResults, the same result and the same record.
C26_DanglingEdgeSkipped ==
    \A e \in ExecIds :
        (Pruned # edges /\ Created(e)) =>
            /\ (StartNodesOver(Pruned) = <<>>) = (StartNodes = <<>>)
            /\ StartNodesOver(Pruned) = <<>> => calls[e] = <<>>
            /\ calls[e] # <<>> =>
                  LET run == RunOver(e, Pruned, Len(calls[e]))
                  IN /\ IsPrefix(CallOrder(e), run.order)
                     /\ Traversed(e) =>
                           /\ CallOrder(e) = run.order
                           /\ context[e].previousResults = run.previousResults
                           /\ result[e] = run.result
                     /\ Finished(e) =>
                           /\ Record(e).status = "completed"
                           /\ Record(e).output = run.result.data
                           /\ Record(e).error = Null

\* C26 for the edges a -> c, a -> b of a workflow of a and b: c is no node,
\* and the run is over with a and b invoked.
C26_Witness ==
    /\ Len(nodes) = 2
    /\ Len(edges) = 2
    /\ edges[1].source = "a" /\ edges[1].target = "c"
    /\ edges[2].source = "a" /\ edges[2].target = "b"
    /\ Finished(1)
    /\ CallOrder(1) = <<"a", "b">>
    /\ FailedCalls(1) = {}
    /\ Record(1).status = "completed"


(***************************************************************************)
(* The stored execution records.                                           *)
(***************************************************************************)
\* The field holds a value.
IsSet(v) == v \notin {Null, Undefined}

\* C27: every stored execution record is consistent with its status:
\* 'running' has no completedAt, output or error; 'completed' has a
\* completedAt and no error; 'failed' has a completedAt and an error and no
\* output.
C27_RecordsConsistent ==
    \A id \in DOMAIN workflowExecutions :
        LET record == workflowExecutions[id]
        IN /\ record.status \in {"running", "completed", "failed"}
           /\ record.status = "running" =>
                 /\ record.completedAt = Null
                 /\ record.output = Null
                 /\ record.error = Null
           /\ record.status = "completed" =>
                 /\ IsSet(record.completedAt)
                 /\ record.error = Null
           /\ record.status = "failed" =>
                 /\ IsSet(record.completedAt)
                 /\ IsSet(record.error)
                 /\ record.output = Null

\* C27 for a call that found no start node and has thrown: its record is
\* 'failed' with the error and the time of the catch block.
C27_Witness ==
    /\ pc[1] = "thrown"
    /\ Created(1)
    /\ Record(1).status = "failed"
    /\ Record(1).error = Str("No start node found in workflow")
    /\ Record(1).completedAt = Now
    /\ Record(1).output = Null


(***************************************************************************)
(* The stored workflow edited during an execution.                         *)
(***************************************************************************)
\* C28: whatever updateWorkflow and deleteWorkflow do to the stored workflow
\* during an execution, the execution invokes the handlers of the nodes and
\* edges it was started with, in their pre-order, its record stays stored
\* under its id for the same workflow, and once the call is over the record
\* has a terminal status.
C28_EditsLeaveExecution ==
    \A e \in ExecIds :
        Created(e) =>
            /\ execution[e].id \in DOMAIN workflowExecutions
            /\ Record(e).workflowId = WorkflowId
            /\ Finished(e) => Record(e).status \in {"completed", "failed"}
            /\ calls[e] # <<>> =>
                  LET order == PreOrder(calls[e][1].node, Len(calls[e]))
                  IN /\ IsPrefix(CallOrder(e), order)
                     /\ (Traversed(e) /\ FailedCalls(e) = {})
                           => CallOrder(e) = order

\* C28 for a workflow a -> b deleted from the in-memory storage while the
\* call was running: both handlers were invoked and the record, still
\* stored, was written 'completed'; the call has yet to return.
C28_Witness ==
    /\ storageInstance = "MemStorage"
    /\ WorkflowId \notin DOMAIN workflows
    /\ pc[1] = "get"
    /\ CallOrder(1) = <<"a", "b">>
    /\ FailedCalls(1) = {}
    /\ Record(1).status = "completed"


(***************************************************************************)
(* The records a storage call leaves alone.                                *)
(***************************************************************************)
\* The storage call applied on its own has returned.
StorageCallReturned ==
    /\ applied.method \in {"createWorkflowExecution", "updateWorkflowExecution"}
    /\ applied.returned
\* The id of the record the call is about.
WrittenId ==
    IF applied.method = "updateWorkflowExecution" THEN applied.id
    ELSE applied.result.id

\* C29: createWorkflowExecution and updateWorkflowExecution(id, ...) leave
\* every workflow and every record with another id as they were; create adds
\* one record under an id no record had; update of a known id changes the
\* fields of the updates and no other, and returns the record; update of an
\* unknown id changes nothing and returns undefined.
C29_OnlyThatRecord ==
    StorageCallReturned =>
        /\ workflows = applied.workflows
        /\ \A i \in DOMAIN applied.store :
              i # WrittenId => /\ i \in DOMAIN workflowExecutions
                               /\ workflowExecutions[i] = applied.store[i]
        /\ DOMAIN workflowExecutions \subseteq (DOMAIN applied.store) \cup {WrittenId}
        /\ applied.method = "createWorkflowExecution" =>
              /\ WrittenId \notin DOMAIN applied.store
              /\ workflowExecutions[WrittenId] = applied.result
        /\ (applied.method = "updateWorkflowExecution"
              /\ applied.id \in DOMAIN applied.store) =>
              /\ applied.result = workflowExecutions[applied.id]
              /\ \A f \in DOMAIN applied.result :
                    applied.result[f] = IF f \in DOMAIN applied.updates
                                        THEN applied.updates[f]
                                        ELSE applied.store[applied.id][f]
        /\ (applied.method = "updateWorkflowExecution"
              /\ applied.id \notin DOMAIN applied.store) =>
              /\ workflowExecutions = applied.store
              /\ applied.result = Undefined

\* C29 for an update of the unknown id while two records are stored, one
\* running and one completed: undefined is returned.
C29_Witness ==
    /\ StorageCallReturned
    /\ applied.method = "updateWorkflowExecution"
    /\ applied.id = MaxRecords
    /\ DOMAIN applied.store = {1, 2}
    /\ applied.store[1].status = "running"
    /\ applied.store[2].status = "completed"
    /\ applied.result = Undefined


(***************************************************************************)
(* The merge handler.                                                      *)
(***************************************************************************)
\* The invocations of the merge handler in e.
MergeCalls(e) == {i \in DOMAIN calls[e] : calls[e][i].handler = "executeMerge"}
\* What a value of the execution e holds, now.
Deref(e, v) ==
    IF v = PreviousResultsObject THEN context[ContextOf(e)].previousResults ELSE v

\* C30: the merge handler succeeds, and data.merged of its result is the
\* previousResults map as it stood when the handler ran: the results of the
\* nodes that succeeded before it, and nothing else.
C30_MergedIsEarlierResults ==
    \A e \in ExecIds : \A i \in MergeCalls(e) :
        LET merged == Deref(e, calls[e][i].result.data.props["merged"])
        IN /\ calls[e][i].result.success
           /\ merged = calls[e][i].context.previousResults
           /\ Keys(merged) = SucceededIn(e, 1 .. (i - 1))

============================================================================
